---- MODULE Spec2Model ----
(***************************************************************************)
(* Model of fbhuploader (src/main.go): one deployment run of a local       *)
(* directory to Firebase Hosting.                                          *)
(*                                                                         *)
(*   main -> run -> readConfig, google.DefaultClient, NewService,          *)
(*                  createVersion, readFiles, getRequiredUploads,          *)
(*                  uploadFiles (upload loop + finalize), release          *)
(*                                                                         *)
(* Every remote call is split into the step that issues it and the step    *)
(* that receives its answer; both are recorded, in order, in `trace`.      *)
(***************************************************************************)
EXTENDS Integers, Sequences, FiniteSets, TLC

(* ------------------------------ bounds -------------------------------- *)
\* number of directory entries under the public root, visited in walk order
NumPaths == 2
\* number of distinct raw file contents
NumContents == 2
\* longest UploadRequiredHashes list the service answers with
MaxUpload == 2

(* --------------------------- value universes --------------------------- *)
Paths == 1..NumPaths
RawContents == {<<c>> : c \in 1..NumContents}

\* names the service may give the new version
VersionNames == {"sites/s/versions/v1", "sites/s/versions/v2"}
\* upload URLs the service may answer with; the second does not parse
UploadURLs == {"https://upload.example/u", "%zz"}
\* statuses a Patch answer may carry
PatchStatuses == {"FINALIZED", "CREATED"}
\* HTTP status codes of an upload answer
StatusCodes == {200, 500}

\* gzip.NewWriter + io.Copy + Close: header, payload, trailer with the size
Gzip(raw) == <<31, 139>> \o raw \o <<Len(raw)>>
\* sha256.Sum256 + hex.EncodeToString: a digest of the given bytes
Sum256(bytes) == [alg |-> "sha256", of |-> bytes]
\* a digest the service may name although no local file has it
ForeignHash == Sum256(<<0>>)
Hashes == {Sum256(Gzip(raw)) : raw \in RawContents} \cup {ForeignHash}

\* what the walk finds at a path: a directory, an entry fs.WalkDir reports with
\* an error, a file that fails to open / read / flush, or a readable file
EntryKinds == {"dir", "walkerr", "openfail", "readfail", "flushfail", "file"}
Entries == {[kind |-> k, raw |-> <<>>] : k \in EntryKinds \ {"file"}}
           \cup {[kind |-> "file", raw |-> r] : r \in RawContents}

\* the paths a glob of hosting.ignore in firebase.json may match
IgnorablePaths == {p \in Paths : p = NumPaths}

RECURSIVE SeqsUpTo(_, _)
SeqsUpTo(S, n) ==
    IF n = 0 THEN {<<>>}
    ELSE LET shorter == SeqsUpTo(S, n - 1)
         IN  shorter \cup {Append(s, x) : s \in {t \in shorter : Len(t) = n - 1}, x \in S}

(* ------------------------------- state -------------------------------- *)
VARIABLES
    pc,          \* position of the run
    err,         \* the error run returns ("nil" for none)
    tree,        \* the directory under Hosting.Public: path -> entry
    ignore,      \* Hosting.Ignore: the paths its globs match
    walkPos,     \* next path the walk visits
    pathToHash,  \* Manifest: "/"+path -> hash
    hashToGzip,  \* ContentStore: hash -> unread bytes of its buffer
    version,     \* version name createVersion returned
    toUpload,    \* UploadRequiredHashes of the populate answer
    uploadURL,   \* UploadUrl of the populate answer
    uploadIdx,   \* index into toUpload of the upload loop
    versionState,\* lifecycle state of the version on the service
    trace,       \* remote calls issued and answers received, in order
    stderr,      \* lines main wrote to standard error
    exitCode     \* process exit status (-1 while running)

vars == <<pc, err, tree, ignore, walkPos, pathToHash, hashToGzip, version, toUpload,
          uploadURL, uploadIdx, versionState, trace, stderr, exitCode>>

\* manifest key of a path: "/" + p
Key(p) == <<"/", p>>

\* endpoint of an upload: uploadURL + "/" + uploadHash
Endpoint(url, hash) == <<url, "/", hash>>

CallEv(op, ver, files, endpoint, body) ==
    [kind |-> "call", op |-> op, version |-> ver, files |-> files,
     endpoint |-> endpoint, body |-> body, err |-> "-", status |-> "-", code |-> 0]
RetEv(op, ver, e, status, code) ==
    [kind |-> "ret", op |-> op, version |-> ver, files |-> <<>>,
     endpoint |-> <<>>, body |-> <<>>, err |-> e, status |-> status, code |-> code]

Init ==
    /\ pc = "readConfig"
    /\ err = "nil"
    /\ tree \in [Paths -> Entries]
    /\ ignore \in SUBSET IgnorablePaths
    /\ walkPos = 1
    /\ pathToHash = <<>>
    /\ hashToGzip = <<>>
    /\ version = ""
    /\ toUpload = <<>>
    /\ uploadURL = ""
    /\ uploadIdx = 1
    /\ versionState = "NONE"
    /\ trace = <<>>
    /\ stderr = <<>>
    /\ exitCode = -1

\* `return e` out of run
Return(e) ==
    /\ pc' = "returned"
    /\ err' = e


(* ----------------------- order of the steps of run --------------------- *)
AfterReadConfig == "defaultClient"
AfterDefaultClient == "newService"
AfterNewService == "createVersion"
AfterCreateVersion == "readFiles"
\* variant: run goes from readFiles straight to uploadFiles
AfterReadFiles_SkipPopulate == "upload"
AfterReadFiles == "populate"
AfterPopulate == "upload"
\* variant: uploadFiles returns nil right after the loop
AfterUploadLoop_SkipFinalize == "release"
AfterUploadLoop == "patch"
\* variant: run returns nil right after uploadFiles
AfterUploadFiles_SkipRelease == "returned"
AfterUploadFiles == "release"

(* ------------------------------ run: setup ----------------------------- *)
\* readConfig: os.ReadFile and json.Unmarshal both succeed
ReadConfigOk ==
    /\ pc = "readConfig"
    /\ pc' = AfterReadConfig
    /\ UNCHANGED <<err, tree, ignore, walkPos, pathToHash, hashToGzip, version, toUpload,
                   uploadURL, uploadIdx, versionState, trace, stderr, exitCode>>

\* readConfig: firebase.json cannot be read, or does not parse
ReadConfigFail ==
    /\ pc = "readConfig"
    /\ \E e \in {"read firebase.json", "unmarshal firebase.json"} : Return(e)
    /\ UNCHANGED <<tree, ignore, walkPos, pathToHash, hashToGzip, version, toUpload,
                   uploadURL, uploadIdx, versionState, trace, stderr, exitCode>>

DefaultClientOk ==
    /\ pc = "defaultClient"
    /\ pc' = AfterDefaultClient
    /\ UNCHANGED <<err, tree, ignore, walkPos, pathToHash, hashToGzip, version, toUpload,
                   uploadURL, uploadIdx, versionState, trace, stderr, exitCode>>

DefaultClientFail ==
    /\ pc = "defaultClient"
    /\ Return("create http client")
    /\ UNCHANGED <<tree, ignore, walkPos, pathToHash, hashToGzip, version, toUpload,
                   uploadURL, uploadIdx, versionState, trace, stderr, exitCode>>

NewServiceOk ==
    /\ pc = "newService"
    /\ pc' = AfterNewService
    /\ UNCHANGED <<err, tree, ignore, walkPos, pathToHash, hashToGzip, version, toUpload,
                   uploadURL, uploadIdx, versionState, trace, stderr, exitCode>>

NewServiceFail ==
    /\ pc = "newService"
    /\ Return("create firebase client")
    /\ UNCHANGED <<tree, ignore, walkPos, pathToHash, hashToGzip, version, toUpload,
                   uploadURL, uploadIdx, versionState, trace, stderr, exitCode>>

(* ----------------------------- createVersion --------------------------- *)
\* client.Sites.Versions.Create(siteID, ...).Do() is issued
CreateVersionCall ==
    /\ pc = "createVersion"
    /\ trace' = Append(trace, CallEv("createVersion", "-", <<>>, <<>>, <<>>))
    /\ pc' = "createVersionWait"
    /\ UNCHANGED <<err, tree, ignore, walkPos, pathToHash, hashToGzip, version, toUpload,
                   uploadURL, uploadIdx, versionState, stderr, exitCode>>

\* the service created the version and answers with its name
CreateVersionOk ==
    /\ pc = "createVersionWait"
    /\ \E v \in VersionNames :
          /\ version' = v
          /\ trace' = Append(trace, RetEv("createVersion", v, "nil", "-", 0))
    /\ versionState' = "CREATED"
    /\ pc' = AfterCreateVersion
    /\ UNCHANGED <<err, tree, ignore, walkPos, pathToHash, hashToGzip, toUpload,
                   uploadURL, uploadIdx, stderr, exitCode>>

CreateVersionErr ==
    /\ pc = "createVersionWait"
    /\ trace' = Append(trace, RetEv("createVersion", "-", "error", "-", 0))
    /\ Return("create new version")
    /\ UNCHANGED <<tree, ignore, walkPos, pathToHash, hashToGzip, version, toUpload,
                   uploadURL, uploadIdx, versionState, stderr, exitCode>>

(* ------------------------------- readFiles ----------------------------- *)
\* the walk callback on a directory: `if err != nil || d.IsDir() { return err }`
WalkDirEntry ==
    /\ pc = "readFiles"
    /\ walkPos \in Paths
    /\ tree[walkPos].kind = "dir"
    /\ walkPos' = walkPos + 1
    /\ UNCHANGED <<pc, err, tree, ignore, pathToHash, hashToGzip, version, toUpload,
                   uploadURL, uploadIdx, versionState, trace, stderr, exitCode>>

\* the error of the walk callback on an entry, "nil" when it stores the file
VisitErr(entry) ==
    CASE entry.kind = "walkerr"   -> "walk"
      [] entry.kind = "openfail"  -> "walk: open"
      [] entry.kind = "readfail"  -> "walk: read from"
      [] entry.kind = "flushfail" -> "walk: flush gzip writer"
      [] OTHER                    -> "nil"

\* variant: the callback returns nil on an entry it cannot process
WalkFail_SkipEntry ==
    /\ pc = "readFiles"
    /\ walkPos \in Paths
    /\ tree[walkPos].kind # "dir"
    /\ VisitErr(tree[walkPos]) # "nil"
    /\ walkPos' = walkPos + 1
    /\ UNCHANGED <<pc, err, tree, ignore, pathToHash, hashToGzip, version, toUpload,
                   uploadURL, uploadIdx, versionState, trace, stderr, exitCode>>

\* the callback fails on this entry: WalkDir stops, readFiles returns
\* `nil, nil, err`
WalkFail ==
    /\ pc = "readFiles"
    /\ walkPos \in Paths
    /\ tree[walkPos].kind # "dir"
    /\ VisitErr(tree[walkPos]) # "nil"
    /\ Return(VisitErr(tree[walkPos]))
    /\ pathToHash' = <<>>
    /\ hashToGzip' = <<>>
    /\ UNCHANGED <<tree, ignore, walkPos, version, toUpload,
                   uploadURL, uploadIdx, versionState, trace, stderr, exitCode>>

\* variant: the content store is keyed by the digest of the raw bytes
WalkFile_KeyMismatch ==
    /\ pc = "readFiles"
    /\ walkPos \in Paths
    /\ tree[walkPos].kind = "file"
    /\ LET buf == Gzip(tree[walkPos].raw)
           hash == Sum256(buf)
       IN  /\ pathToHash' = (Key(walkPos) :> hash) @@ pathToHash
           /\ hashToGzip' = (Sum256(tree[walkPos].raw) :> buf) @@ hashToGzip
    /\ walkPos' = walkPos + 1
    /\ UNCHANGED <<pc, err, tree, ignore, version, toUpload, uploadURL, uploadIdx,
                   versionState, trace, stderr, exitCode>>

\* the callback on a readable file: gzip into a fresh buffer, hash the buffer,
\* record "/"+p -> hash and hash -> &buf.  Hosting.Ignore is never consulted.
WalkFile ==
    /\ pc = "readFiles"
    /\ walkPos \in Paths
    /\ tree[walkPos].kind = "file"
    /\ LET buf == Gzip(tree[walkPos].raw)
           hash == Sum256(buf)
       IN  /\ pathToHash' = (Key(walkPos) :> hash) @@ pathToHash
           /\ hashToGzip' = (hash :> buf) @@ hashToGzip
    /\ walkPos' = walkPos + 1
    /\ UNCHANGED <<pc, err, tree, ignore, version, toUpload, uploadURL, uploadIdx,
                   versionState, trace, stderr, exitCode>>

\* WalkDir visited every entry: readFiles returns the two maps
ReadFilesDone ==
    /\ pc = "readFiles"
    /\ walkPos = NumPaths + 1
    /\ pc' = AfterReadFiles
    /\ UNCHANGED <<err, tree, ignore, walkPos, pathToHash, hashToGzip, version, toUpload,
                   uploadURL, uploadIdx, versionState, trace, stderr, exitCode>>

(* --------------------------- getRequiredUploads ------------------------ *)
\* client.Sites.Versions.PopulateFiles(version, {Files: pathToHash}).Do()
PopulateCall ==
    /\ pc = "populate"
    /\ trace' = Append(trace, CallEv("populateFiles", version, pathToHash, <<>>, <<>>))
    /\ pc' = "populateWait"
    /\ UNCHANGED <<err, tree, ignore, walkPos, pathToHash, hashToGzip, version, toUpload,
                   uploadURL, uploadIdx, versionState, stderr, exitCode>>

\* the service answers with the hashes it wants and where to send them
PopulateOk ==
    /\ pc = "populateWait"
    /\ \E req \in SeqsUpTo(Hashes, MaxUpload), url \in UploadURLs :
          /\ toUpload' = req
          /\ uploadURL' = url
    /\ trace' = Append(trace, RetEv("populateFiles", "-", "nil", "-", 0))
    /\ versionState' = "POPULATED"
    /\ uploadIdx' = 1
    /\ pc' = AfterPopulate
    /\ UNCHANGED <<err, tree, ignore, walkPos, pathToHash, hashToGzip, version,
                   stderr, exitCode>>

PopulateErr ==
    /\ pc = "populateWait"
    /\ trace' = Append(trace, RetEv("populateFiles", "-", "error", "-", 0))
    /\ Return("get required uploads")
    /\ UNCHANGED <<tree, ignore, walkPos, pathToHash, hashToGzip, version, toUpload,
                   uploadURL, uploadIdx, versionState, stderr, exitCode>>


(* ------------------------------ uploadFiles ---------------------------- *)
\* http.NewRequestWithContext parses the endpoint; "%zz" is no valid escape
ValidURL(url) == url # "%zz"

\* `for _, uploadHash := range toUpload`: another hash is left
HasNext(idx, list) == idx <= Len(list)

\* the request body hashToGzip[uploadHash]: what is left unread in the buffer;
\* a hash that is no key of the map yields the nil reader, an empty body
UploadBody(store, hash) == IF hash \in DOMAIN store THEN store[hash] ELSE <<>>

\* the transport reads the body to its end: the buffer behind it is drained
Drain(store, hash) ==
    IF hash \in DOMAIN store THEN [store EXCEPT ![hash] = <<>>] ELSE store

\* variant: the status code of the upload answer is not looked at
UploadStatusErr_Ignored(code) == "nil"

\* `if res.StatusCode != 200 { return ... }`
UploadStatusErr(code) ==
    IF code # 200 THEN "unexpected response for upload" ELSE "nil"

\* variant: the status of the Patch answer is not looked at
FinalizationErr_AcceptAny(status) == "nil"

\* variant: the comparison with "FINALIZED" is inverted
FinalizationErr_Inverted(status) ==
    IF status = "FINALIZED" THEN "unexpected finalization status" ELSE "nil"

\* `if patchResponse.Status != "FINALIZED" { return ... }`
FinalizationErr(status) ==
    IF status # "FINALIZED" THEN "unexpected finalization status" ELSE "nil"

\* the request for the next hash cannot be built: no call is issued
UploadNewRequestErr ==
    /\ pc = "upload"
    /\ HasNext(uploadIdx, toUpload)
    /\ ~ValidURL(uploadURL)
    /\ Return("create request")
    /\ UNCHANGED <<tree, ignore, walkPos, pathToHash, hashToGzip, version, toUpload,
                   uploadURL, uploadIdx, versionState, trace, stderr, exitCode>>

\* httpClient.Do(req): POST of the buffer of the next hash to its endpoint
UploadDo ==
    /\ pc = "upload"
    /\ HasNext(uploadIdx, toUpload)
    /\ ValidURL(uploadURL)
    /\ LET uploadHash == toUpload[uploadIdx]
       IN  /\ trace' = Append(trace, CallEv("upload", "-", <<>>,
                                  Endpoint(uploadURL, uploadHash),
                                  UploadBody(hashToGzip, uploadHash)))
           /\ hashToGzip' = Drain(hashToGzip, uploadHash)
    /\ pc' = "uploadWait"
    /\ UNCHANGED <<err, tree, ignore, walkPos, pathToHash, version, toUpload,
                   uploadURL, uploadIdx, versionState, stderr, exitCode>>

\* transport error of httpClient.Do
UploadDoErr ==
    /\ pc = "uploadWait"
    /\ trace' = Append(trace, RetEv("upload", "-", "error", "-", 0))
    /\ Return("upload")
    /\ UNCHANGED <<tree, ignore, walkPos, pathToHash, hashToGzip, version, toUpload,
                   uploadURL, uploadIdx, versionState, stderr, exitCode>>

\* an answer whose status the loop rejects
UploadRejected ==
    /\ pc = "uploadWait"
    /\ \E code \in StatusCodes :
          /\ UploadStatusErr(code) # "nil"
          /\ trace' = Append(trace, RetEv("upload", "-", "nil", "-", code))
          /\ Return(UploadStatusErr(code))
    /\ UNCHANGED <<tree, ignore, walkPos, pathToHash, hashToGzip, version, toUpload,
                   uploadURL, uploadIdx, versionState, stderr, exitCode>>

\* an answer the loop accepts: on to the next hash
UploadAccepted ==
    /\ pc = "uploadWait"
    /\ \E code \in StatusCodes :
          /\ UploadStatusErr(code) = "nil"
          /\ trace' = Append(trace, RetEv("upload", "-", "nil", "-", code))
    /\ uploadIdx' = uploadIdx + 1
    /\ pc' = "upload"
    /\ UNCHANGED <<err, tree, ignore, walkPos, pathToHash, hashToGzip, version, toUpload,
                   uploadURL, versionState, stderr, exitCode>>

\* the range loop is over
UploadLoopDone ==
    /\ pc = "upload"
    /\ ~HasNext(uploadIdx, toUpload)
    /\ pc' = AfterUploadLoop
    /\ UNCHANGED <<err, tree, ignore, walkPos, pathToHash, hashToGzip, version, toUpload,
                   uploadURL, uploadIdx, versionState, trace, stderr, exitCode>>

\* client.Sites.Versions.Patch(version, {Status: "FINALIZED"}).Do()
PatchCall ==
    /\ pc = "patch"
    /\ trace' = Append(trace, CallEv("finalize", version, <<>>, <<>>, <<>>))
    /\ pc' = "patchWait"
    /\ UNCHANGED <<err, tree, ignore, walkPos, pathToHash, hashToGzip, version, toUpload,
                   uploadURL, uploadIdx, versionState, stderr, exitCode>>

PatchErr ==
    /\ pc = "patchWait"
    /\ trace' = Append(trace, RetEv("finalize", "-", "error", "-", 0))
    /\ Return("finalize")
    /\ UNCHANGED <<tree, ignore, walkPos, pathToHash, hashToGzip, version, toUpload,
                   uploadURL, uploadIdx, versionState, stderr, exitCode>>

\* the Patch answer carries a status uploadFiles rejects
PatchRejected ==
    /\ pc = "patchWait"
    /\ \E status \in PatchStatuses :
          /\ FinalizationErr(status) # "nil"
          /\ trace' = Append(trace, RetEv("finalize", "-", "nil", status, 0))
          /\ versionState' = IF status = "FINALIZED" THEN "FINALIZED" ELSE versionState
          /\ Return(FinalizationErr(status))
    /\ UNCHANGED <<tree, ignore, walkPos, pathToHash, hashToGzip, version, toUpload,
                   uploadURL, uploadIdx, stderr, exitCode>>

\* the Patch answer carries a status uploadFiles accepts: uploadFiles returns nil
PatchAccepted ==
    /\ pc = "patchWait"
    /\ \E status \in PatchStatuses :
          /\ FinalizationErr(status) = "nil"
          /\ trace' = Append(trace, RetEv("finalize", "-", "nil", status, 0))
          /\ versionState' = IF status = "FINALIZED" THEN "FINALIZED" ELSE versionState
    /\ pc' = AfterUploadFiles
    /\ UNCHANGED <<err, tree, ignore, walkPos, pathToHash, hashToGzip, version, toUpload,
                   uploadURL, uploadIdx, stderr, exitCode>>

(* -------------------------------- release ------------------------------ *)
\* variant: release is called with site and version swapped
ReleaseCall_SwappedArgs ==
    /\ pc = "release"
    /\ trace' = Append(trace, CallEv("createRelease", "sites/s", <<>>, <<>>, <<>>))
    /\ pc' = "releaseWait"
    /\ UNCHANGED <<err, tree, ignore, walkPos, pathToHash, hashToGzip, version, toUpload,
                   uploadURL, uploadIdx, versionState, stderr, exitCode>>

\* client.Sites.Releases.Create(site, {}).VersionName(version).Do()
ReleaseCall ==
    /\ pc = "release"
    /\ trace' = Append(trace, CallEv("createRelease", version, <<>>, <<>>, <<>>))
    /\ pc' = "releaseWait"
    /\ UNCHANGED <<err, tree, ignore, walkPos, pathToHash, hashToGzip, version, toUpload,
                   uploadURL, uploadIdx, versionState, stderr, exitCode>>

ReleaseOk ==
    /\ pc = "releaseWait"
    /\ trace' = Append(trace, RetEv("createRelease", "-", "nil", "-", 0))
    /\ Return("nil")
    /\ UNCHANGED <<tree, ignore, walkPos, pathToHash, hashToGzip, version, toUpload,
                   uploadURL, uploadIdx, versionState, stderr, exitCode>>

\* variant: a failed release is tried again
ReleaseErr_Retry ==
    /\ pc = "releaseWait"
    /\ trace' = Append(trace, RetEv("createRelease", "-", "error", "-", 0))
    /\ pc' = "release"
    /\ UNCHANGED <<err, tree, ignore, walkPos, pathToHash, hashToGzip, version, toUpload,
                   uploadURL, uploadIdx, versionState, stderr, exitCode>>

\* variant: release drops the error of Releases.Create
ReleaseErr_Swallowed ==
    /\ pc = "releaseWait"
    /\ trace' = Append(trace, RetEv("createRelease", "-", "error", "-", 0))
    /\ Return("nil")
    /\ UNCHANGED <<tree, ignore, walkPos, pathToHash, hashToGzip, version, toUpload,
                   uploadURL, uploadIdx, versionState, stderr, exitCode>>

ReleaseErr ==
    /\ pc = "releaseWait"
    /\ trace' = Append(trace, RetEv("createRelease", "-", "error", "-", 0))
    /\ Return("release")
    /\ UNCHANGED <<tree, ignore, walkPos, pathToHash, hashToGzip, version, toUpload,
                   uploadURL, uploadIdx, versionState, stderr, exitCode>>

(* ---------------------------------- main ------------------------------- *)
\* run returned nil: main returns, the process exits with status 0
MainOk ==
    /\ pc = "returned"
    /\ err = "nil"
    /\ exitCode' = 0
    /\ pc' = "exited"
    /\ UNCHANGED <<err, tree, ignore, walkPos, pathToHash, hashToGzip, version, toUpload,
                   uploadURL, uploadIdx, versionState, trace, stderr>>

\* variant: main prints the error and returns without os.Exit(1)
MainFail_NoExit ==
    /\ pc = "returned"
    /\ err # "nil"
    /\ stderr' = Append(stderr, err)
    /\ exitCode' = 0
    /\ pc' = "exited"
    /\ UNCHANGED <<err, tree, ignore, walkPos, pathToHash, hashToGzip, version, toUpload,
                   uploadURL, uploadIdx, versionState, trace>>

\* run returned an error: fmt.Fprintln(os.Stderr, err); os.Exit(1)
MainFail ==
    /\ pc = "returned"
    /\ err # "nil"
    /\ stderr' = Append(stderr, err)
    /\ exitCode' = 1
    /\ pc' = "exited"
    /\ UNCHANGED <<err, tree, ignore, walkPos, pathToHash, hashToGzip, version, toUpload,
                   uploadURL, uploadIdx, versionState, trace>>

Next ==
    \/ ReadConfigOk \/ ReadConfigFail
    \/ DefaultClientOk \/ DefaultClientFail
    \/ NewServiceOk \/ NewServiceFail
    \/ CreateVersionCall \/ CreateVersionOk \/ CreateVersionErr
    \/ WalkDirEntry \/ WalkFail \/ WalkFile \/ ReadFilesDone
    \/ PopulateCall \/ PopulateOk \/ PopulateErr
    \/ UploadNewRequestErr \/ UploadDo \/ UploadDoErr
    \/ UploadRejected \/ UploadAccepted \/ UploadLoopDone
    \/ PatchCall \/ PatchErr \/ PatchRejected \/ PatchAccepted
    \/ ReleaseCall \/ ReleaseOk \/ ReleaseErr
    \/ MainOk \/ MainFail

Spec == Init /\ [][Next]_vars

\* every step of the run returns: a run that can take a step takes one
FairSpec == Spec /\ WF_vars(Next)


(* ======================= properties of the run ========================= *)
Range(f) == {f[i] : i \in DOMAIN f}

\* positions in trace of the calls / answers of a remote operation
Calls(op) == {i \in DOMAIN trace : trace[i].kind = "call" /\ trace[i].op = op}
Rets(op) == {i \in DOMAIN trace : trace[i].kind = "ret" /\ trace[i].op = op}

\* answers that report success
OkRets(op) == {i \in Rets(op) : trace[i].err = "nil"}
\* Patch answers with no error and status exactly "FINALIZED"
FinalizedRets == {i \in OkRets("finalize") : trace[i].status = "FINALIZED"}
\* upload answers that are a failure: transport error, or a status other than 200
FailedUploadRets == {i \in Rets("upload") : trace[i].err # "nil" \/ trace[i].code # 200}
\* positions of the upload calls that carry hash h
UploadsOf(h) == {i \in Calls("upload") : trace[i].endpoint[3] = h}

Finished == pc \in {"returned", "exited"}

\* C1: release creation is issued only after finalize returned, without error,
\* the status "FINALIZED": every createRelease call in the trace is preceded
\* by such a Patch answer.
C1_ReleaseGated ==
    \A i \in Calls("createRelease") : \E j \in FinalizedRets : j < i

C1_Witness == Calls("createRelease") # {}

\* C2: once finalize has answered without error but with a status other than
\* "FINALIZED", run has returned the finalization error and no release call
\* is in the trace (now or in any later state).
C2_FinalizeOtherStatusAborts ==
    (\E i \in OkRets("finalize") : trace[i].status # "FINALIZED")
        => /\ Finished
           /\ err = "unexpected finalization status"
           /\ Calls("createRelease") = {}

C2_Witness ==
    /\ \E i \in OkRets("finalize") : trace[i].status # "FINALIZED"
    /\ pc = "exited"

\* C3: a failed upload (transport error or status other than 200) is the last
\* remote event of the run: no later upload, no finalize, no release; run has
\* returned an upload error and the version is not finalized.
C3_UploadFailureAborts ==
    \A i \in FailedUploadRets :
        /\ i = Len(trace)
        /\ Finished
        /\ err \in {"upload", "unexpected response for upload"}
        /\ Calls("finalize") = {}
        /\ Calls("createRelease") = {}
        /\ versionState # "FINALIZED"

\* an upload failed while another required hash was still to be sent
C3_Witness ==
    /\ FailedUploadRets # {}
    /\ uploadIdx < Len(toUpload)
    /\ pc = "exited"

\* C4: when finalize is called (every upload succeeded), each hash of the
\* required list has been sent exactly once and no other hash has been sent.
C4_EachRequiredHashOnce ==
    Calls("finalize") # {}
        => /\ \A h \in Range(toUpload) : Cardinality(UploadsOf(h)) = 1
           /\ \A i \in Calls("upload") : trace[i].endpoint[3] \in Range(toUpload)

\* C5: after populateFiles answered with an empty required list there is no
\* upload call, and the event that follows the answer is the finalize call.
C5_EmptyRequiredStraightToFinalize ==
    \A i \in OkRets("populateFiles") :
        toUpload = <<>>
            => /\ Calls("upload") = {}
               /\ i < Len(trace) =>
                      /\ trace[i + 1].kind = "call"
                      /\ trace[i + 1].op = "finalize"
               /\ Finished => i < Len(trace)

C5_Witness ==
    /\ OkRets("populateFiles") # {}
    /\ toUpload = <<>>
    /\ Calls("finalize") # {}


\* a failing input of C4: the populate answer names the same hash twice
C4_Failing ==
    /\ Len(toUpload) = 2
    /\ toUpload[1] = toUpload[2]
    /\ Calls("finalize") # {}
    /\ Cardinality(UploadsOf(toUpload[1])) = 2

\* position of a lifecycle state in NONE < CREATED < POPULATED < FINALIZED
StateRank(st) ==
    CASE st = "NONE" -> 0
      [] st = "CREATED" -> 1
      [] st = "POPULATED" -> 2
      [] st = "FINALIZED" -> 3

\* the version was created, then populated, then finalized, in that order
PassedInOrder ==
    \E i \in OkRets("createVersion"), j \in OkRets("populateFiles"), k \in FinalizedRets :
        i < j /\ j < k

\* every finalize call comes after a successful populateFiles answer
FinalizeOnlyAfterPopulate ==
    \A k \in Calls("finalize") : \E j \in OkRets("populateFiles") : j < k

\* C6: a FINALIZED version has been CREATED and then POPULATED before;
\* finalize is never called unless reconciliation succeeded; the lifecycle
\* state never moves backwards.
C6_MonotonicLifecycle ==
    /\ [](versionState = "FINALIZED" => PassedInOrder)
    /\ []FinalizeOnlyAfterPopulate
    /\ [][StateRank(versionState') >= StateRank(versionState)]_vars

C6_Witness == versionState = "FINALIZED" /\ pc = "exited"

\* place of a remote operation in the order of a run
OpRank(op) ==
    CASE op = "createVersion" -> 1
      [] op = "populateFiles" -> 2
      [] op = "upload" -> 3
      [] op = "finalize" -> 4
      [] op = "createRelease" -> 5

\* calls issued and not yet answered
InFlight ==
    Cardinality({i \in DOMAIN trace : trace[i].kind = "call"})
      - Cardinality({i \in DOMAIN trace : trace[i].kind = "ret"})

\* C7: the remote steps run in the order create, reconcile, upload(s),
\* finalize, release, each step starting only after the one before it
\* answered with success; create, reconcile, finalize and release are called
\* at most once; uploads lie between the populate answer and the finalize
\* call; a call is issued only when no other call is in flight.
C7_StrictOrder ==
    /\ \A i, j \in DOMAIN trace :
          (i < j /\ trace[i].kind = "call" /\ trace[j].kind = "call")
              => OpRank(trace[i].op) <= OpRank(trace[j].op)
    /\ \A op \in {"createVersion", "populateFiles", "finalize", "createRelease"} :
          Cardinality(Calls(op)) <= 1
    /\ \A u \in Calls("upload") :
          /\ \E j \in OkRets("populateFiles") : j < u
          /\ \A k \in Calls("finalize") : u < k
    /\ \A i \in DOMAIN trace :
          trace[i].kind = "call"
              => /\ i > 1 => trace[i - 1].kind = "ret" /\ trace[i - 1].err = "nil"
                 /\ i < Len(trace) =>
                        trace[i + 1].kind = "ret" /\ trace[i + 1].op = trace[i].op
    /\ InFlight \in {0, 1}

\* a run that made every kind of call, with two uploads
C7_Witness ==
    /\ Rets("createRelease") # {}
    /\ Cardinality(Calls("upload")) >= 2
    /\ pc = "exited"

\* the errors of run that come from the local machine only
LocalErrors ==
    {"read firebase.json", "unmarshal firebase.json", "walk", "walk: open",
     "walk: read from", "walk: flush gzip writer"}

\* C8: a run that failed with a local error (configuration, walk, file
\* read/compress/hash) has issued no call to the hosting service.
C8_LocalErrorNoRemoteCall ==
    (Finished /\ err \in LocalErrors) => trace = <<>>

\* a failing input of C8: the first entry under the root cannot be opened
C8_Failing ==
    /\ tree[1].kind = "openfail"
    /\ pc = "exited"
    /\ err = "walk: open"
    /\ OkRets("createVersion") # {}

\* readFiles has returned its two maps to run
CatalogBuilt ==
    pc \notin {"readConfig", "defaultClient", "newService", "createVersion",
               "createVersionWait", "readFiles"}
    /\ walkPos = NumPaths + 1

\* files under the root that match / do not match a pattern of Hosting.Ignore
IgnoredFiles == {p \in Paths : tree[p].kind = "file" /\ p \in ignore}
KeptFiles == {p \in Paths : tree[p].kind = "file" /\ p \notin ignore}

\* C9: once the catalog is built, the Manifest has exactly the non-ignored
\* files as keys, and no ignored file is in the Manifest, nor is the content
\* of a file that only ignored paths hold in the ContentStore.
C9_ManifestCompleteAndFiltered ==
    CatalogBuilt
        => /\ DOMAIN pathToHash = {Key(p) : p \in KeptFiles}
           /\ \A p \in IgnoredFiles : Key(p) \notin DOMAIN pathToHash
           /\ DOMAIN hashToGzip = {Sum256(Gzip(tree[p].raw)) : p \in KeptFiles}

\* a failing input of C9: an ignored file that reached the populate request
C9_Failing ==
    \E p \in IgnoredFiles, i \in Calls("populateFiles") :
        Key(p) \in DOMAIN trace[i].files

\* the messages run returns, each starting with the phase that failed
PhaseErrors ==
    LocalErrors \cup
    {"create http client", "create firebase client", "create new version",
     "get required uploads", "create request", "upload",
     "unexpected response for upload", "finalize",
     "unexpected finalization status", "release"}

\* upload answers with no error and status 200
OkUploadRets == Rets("upload") \ FailedUploadRets

\* every phase of the run succeeded, through release creation
AllPhasesSucceeded ==
    /\ OkRets("createVersion") # {}
    /\ CatalogBuilt
    /\ OkRets("populateFiles") # {}
    /\ Cardinality(OkUploadRets) = Len(toUpload)
    /\ FinalizedRets # {}
    /\ OkRets("createRelease") # {}

\* C11: the process exits with status 0 and no output exactly when every
\* phase succeeded through release creation; otherwise it has written one
\* line, the error of run that names the failing phase, and exits non-zero.
C11_ExitBehaviour ==
    pc = "exited"
        => /\ (exitCode = 0 /\ stderr = <<>>) <=> AllPhasesSucceeded
           /\ ~AllPhasesSucceeded
                  => /\ Len(stderr) = 1
                     /\ stderr[1] = err
                     /\ err \in PhaseErrors
                     /\ exitCode # 0

\* both outcomes have happened: here the failing one, after remote calls
C11_Witness == pc = "exited" /\ exitCode = 1 /\ Len(stderr) = 1 /\ trace # <<>>

\* C12: once release creation failed, that answer is the last remote event,
\* run has returned the release error, the version is FINALIZED and no
\* release was created.
C12_ReleaseFailure ==
    \A i \in Rets("createRelease") :
        trace[i].err # "nil"
            => /\ i = Len(trace)
               /\ Finished
               /\ err = "release"
               /\ versionState = "FINALIZED"
               /\ OkRets("createRelease") = {}
               /\ Cardinality(Calls("createRelease")) = 1

C12_Witness ==
    /\ \E i \in Rets("createRelease") : trace[i].err # "nil"
    /\ pc = "exited"

\* paths whose file cannot be opened, read or compressed
UnreadablePaths ==
    {p \in Paths : tree[p].kind \in {"openfail", "readfail", "flushfail"}}

WalkErrors == {"walk", "walk: open", "walk: read from", "walk: flush gzip writer"}

\* C13: with a file under the root that cannot be opened, read or compressed,
\* readFiles never hands a manifest to run: once the walk is over run has
\* returned a walk error with no manifest and no content store, and no
\* populate, upload, finalize or release call is ever issued.
C13_UnreadableFileAbortsCatalog ==
    UnreadablePaths # {}
        => /\ pc \in {"readConfig", "defaultClient", "newService", "createVersion",
                      "createVersionWait", "readFiles", "returned", "exited"}
           /\ (Finished /\ OkRets("createVersion") # {})
                  => /\ err \in WalkErrors
                     /\ pathToHash = <<>>
                     /\ hashToGzip = <<>>
           /\ \A op \in {"populateFiles", "upload", "finalize", "createRelease"} :
                  Calls(op) = {}

\* the second entry is unreadable: the first was already gzipped and hashed
C13_Witness ==
    /\ tree[1].kind = "file"
    /\ 2 \in UnreadablePaths
    /\ pc = "exited"
    /\ err \in WalkErrors

\* pairs of distinct paths that hold readable files with the same bytes
SameContentPairs ==
    {pq \in Paths \X Paths :
        /\ pq[1] # pq[2]
        /\ tree[pq[1]].kind = "file" /\ tree[pq[2]].kind = "file"
        /\ tree[pq[1]].raw = tree[pq[2]].raw}

\* two paths with the same bytes share one hash and one ContentStore entry
SharedHashOneEntry ==
    \A pq \in SameContentPairs :
        /\ pathToHash[Key(pq[1])] = pathToHash[Key(pq[2])]
        /\ pathToHash[Key(pq[1])] \in DOMAIN hashToGzip
        /\ Cardinality({h \in DOMAIN hashToGzip :
                           h = Sum256(Gzip(tree[pq[1]].raw))}) = 1

\* C14: once the catalog is built, two distinct paths with identical bytes
\* map to the same hash, the ContentStore has one entry for it, and the
\* hash is uploaded at most once in the run.
C14_DedupCorrect ==
    CatalogBuilt
        => /\ SharedHashOneEntry
           /\ \A pq \in SameContentPairs :
                  Cardinality(UploadsOf(pathToHash[Key(pq[1])])) <= 1

\* a failing input of C14: two files with the same bytes, and a populate
\* answer that names their hash twice
C14_Failing ==
    /\ CatalogBuilt
    /\ \E pq \in SameContentPairs :
          /\ toUpload = <<pathToHash[Key(pq[1])], pathToHash[Key(pq[1])]>>
          /\ Cardinality(UploadsOf(pathToHash[Key(pq[1])])) = 2

\* the remote operations of the run
RemoteOps == {"createVersion", "populateFiles", "upload", "finalize", "createRelease"}

\* C15: a run issues at most one createRelease call and no other call on a
\* release; a run that returned nil has created exactly one release; a run
\* that returned an error of a phase before release has issued none.
C15_OneReleasePerRun ==
    /\ Cardinality(Calls("createRelease")) <= 1
    /\ \A i \in DOMAIN trace : trace[i].op \in RemoteOps
    /\ (Finished /\ err = "nil") => Cardinality(OkRets("createRelease")) = 1
    /\ (Finished /\ err \notin {"nil", "release"}) => Calls("createRelease") = {}
    /\ (Finished /\ err = "release") => OkRets("createRelease") = {}

C15_Witness ==
    /\ pc = "exited"
    /\ err = "nil"
    /\ Cardinality(OkRets("createRelease")) = 1

\* C16: from the moment the catalog is built, the hashes of the Manifest are
\* exactly the keys of the ContentStore.
C16_ManifestMatchesStore ==
    CatalogBuilt => Range(pathToHash) = DOMAIN hashToGzip

\* two files with different bytes, after the uploads have run
C16_Witness ==
    /\ CatalogBuilt
    /\ Cardinality(DOMAIN hashToGzip) = 2
    /\ Calls("upload") # {}
    /\ pc = "exited"

\* the compressed bytes the catalog stored for a hash: those of a file under
\* the root whose gzip output has this digest
StoredBytes(h) ==
    {Gzip(tree[p].raw) : p \in {q \in Paths : /\ tree[q].kind = "file"
                                              /\ Sum256(Gzip(tree[q].raw)) = h}}

\* C17: every upload call goes to uploadURL + "/" + h for a hash h of the
\* required list and carries the complete compressed bytes stored for h,
\* never an empty body, also for a hash that is no key of the ContentStore
\* and for a hash the list names more than once.
C17_UploadCarriesStoredBytes ==
    \A i \in Calls("upload") :
        LET h == trace[i].endpoint[3]
        IN  /\ h \in Range(toUpload)
            /\ trace[i].endpoint = Endpoint(uploadURL, h)
            /\ trace[i].body # <<>>
            /\ trace[i].body \in StoredBytes(h)

\* a failing input of C17: the list names a stored hash twice and the second
\* request goes out with an empty body
C17_Failing ==
    /\ Len(toUpload) = 2
    /\ toUpload[1] = toUpload[2]
    /\ toUpload[1] \in DOMAIN hashToGzip
    /\ \E i, j \in UploadsOf(toUpload[1]) :
          i < j /\ trace[i].body # <<>> /\ trace[j].body = <<>>

\* C18: after the catalog is built, what can be read for every hash of the
\* ContentStore is the bytes stored for it at the build.
C18_ContentStoreReadOnly ==
    CatalogBuilt => \A h \in DOMAIN hashToGzip : hashToGzip[h] \in StoredBytes(h)

\* a failing input of C18: a stored hash was uploaded with success
C18_Failing ==
    /\ CatalogBuilt
    /\ OkUploadRets # {}
    /\ \E h \in DOMAIN hashToGzip : hashToGzip[h] = <<>>
    /\ pc = "exited"

\* C19: createVersion is called once, and the version named in the populate,
\* finalize and createRelease calls is the name that call returned.
C19_OneVersionName ==
    /\ Cardinality(Calls("createVersion")) <= 1
    /\ \A i \in Calls("populateFiles") \cup Calls("finalize") \cup Calls("createRelease") :
          \E j \in OkRets("createVersion") :
              /\ j < i
              /\ trace[i].version = trace[j].version
              /\ trace[i].version = version

C19_Witness ==
    /\ Calls("populateFiles") # {}
    /\ Calls("finalize") # {}
    /\ OkRets("createRelease") # {}
    /\ version = "sites/s/versions/v2"

\* the two terminal outcomes of a run
Released == OkRets("createRelease") # {} /\ err = "nil"
Failed == err # "nil"

\* nothing failed: no local error, no failed call, finalize answered FINALIZED
NothingFailed ==
    /\ err \notin LocalErrors \cup {"create http client", "create firebase client",
                                     "create request"}
    /\ \A i \in DOMAIN trace : trace[i].kind = "ret" => trace[i].err = "nil"
    /\ FailedUploadRets = {}
    /\ \A i \in OkRets("finalize") : trace[i].status = "FINALIZED"

\* C20: every run terminates, in exactly one of the outcomes released or
\* failed, and a run in which nothing failed ends released.
C20_Terminates ==
    /\ <>(pc = "exited")
    /\ [](pc = "exited" => (Released # Failed))
    /\ [](pc = "exited" /\ NothingFailed => Released)

C20_Witness == pc = "exited" /\ Released /\ NothingFailed /\ Len(toUpload) = 2

====
